---- MODULE Spec2Model ----
(***************************************************************************)
(* The metaphor action: the event router of metaphor-action/index.js and   *)
(* the story generator of metaphor-action/scripts/storyGenerator.js.       *)
(*                                                                         *)
(* Text is a sequence of atoms: an atom is a run of literal characters, a  *)
(* placeholder token such as "{title}", or the replacement pattern "$&".   *)
(* One run of the action handles one webhook event; the issue, its labels  *)
(* and the repository's files live on the platform and outlive the run.    *)
(***************************************************************************)
EXTENDS Naturals, Sequences, FiniteSets, TLC

\* ------------------------------------------------------------------ bounds
MaxLabels == 2      \* longest label list an issue carries
MaxRuns == 2        \* runs of the action on the same issue

\* ------------------------------------------------------- values of the code
NoMsg == "none"             \* core.setFailed was not called
NoMatch == "none"           \* the classifier found no category
Sentinel == "published"
Tag == "metaphore"

\* storyGenerator.js has three revisions of module.exports; two are modelled:
\* "table" (lines 104-147) and "nogate" (lines 231-295).
Revisions == {"table", "nogate"}

\* The lookup table of the "table" revision, in source order.
metaphors ==
  << "linux", "cpp", "css", "golang", "javascript", "java", "maths",
     "python", "php", "physics", "ruby", "rust", "zig" >>

\* The branch ladder of the "nogate" revision, in source order.
ladder ==
  << "css", "go", "javascript", "java", "maths", "python", "php",
     "physics", "ruby", "rust", "zig" >>

Range(s) == { s[i] : i \in 1..Len(s) }

Categories == Range(metaphors)

\* ['darkterminal', 'mkubdev']
Reviewers == {"darkterminal", "mkubdev"}

\* ------------------------------------------------------------ input domains
LabelNames == Categories \cup {Tag, Sentinel, "bug"}

\* Label lists of an issue: ordered, no duplicates.
NoDup(s) == \A i, j \in 1..Len(s) : i # j => s[i] # s[j]

SeqsUpTo(S, n) == UNION { [1..k -> S] : k \in 0..n }

LabelLists == { s \in SeqsUpTo(LabelNames, MaxLabels) : NoDup(s) }

AssigneeLists == { <<>>, <<"octocat">>, <<"octocat", "mkubdev">> }

\* The title and the body of an issue.
Texts ==
  { [ title |-> <<"A", "Tale">>, body |-> <<"Once">> ],
    [ title |-> <<"{author}">>, body |-> <<"{title}", "$&">> ],
    [ title |-> <<"$&", "{content}">>, body |-> <<"Once">> ],
    [ title |-> <<"Tale">>, body |-> <<"Cost", "$&">> ] }

Actions == {"closed", "opened", "edited"}

\* ------------------------------------------------------------ the renderer
template ==
  << "---\nlayout: post\ntitle: ", "{title}", "\nauthor: ", "{author}",
     "\ncreated_at: ", "{created_at}", "\nlanguage: ", "{language}",
     "\n---\n\n", "{content}" >>

placeholders == << "{title}", "{author}", "{created_at}", "{language}", "{content}" >>

\* A replacement string as String.prototype.replace expands it for a match:
\* "$&" stands for the matched text.
Expand(value, matched) ==
  [ i \in 1..Len(value) |-> IF value[i] = "$&" THEN matched ELSE value[i] ]

\* text.replace(new RegExp(placeholder, 'g'), value)
RECURSIVE Replace(_, _, _)
Replace(text, placeholder, value) ==
  IF text = <<>> THEN <<>>
  ELSE (IF Head(text) = placeholder THEN Expand(value, placeholder) ELSE <<Head(text)>>)
       \o Replace(Tail(text), placeholder, value)

\* placeholders.reduce((template, placeholder, index) => ..., template)
RECURSIVE Reduce(_, _, _)
Reduce(text, values, index) ==
  IF index > Len(placeholders) THEN text
  ELSE Reduce(Replace(text, placeholders[index], values[index]), values, index + 1)

Values(issueData, cat) ==
  << issueData.title, <<issueData.user>>, <<issueData.created_at>>,
     <<cat>>, issueData.body >>

\* Buffer.from(text).toString('base64')
Base64Encode(text) == [ encoding |-> "base64", bytes |-> text ]

Base64Decode(content) == content.bytes

\* ./utils/slugify: lower-case words joined by one separator.
SlugWord(atom) ==
  CASE atom = "A" -> <<"a">>
    [] atom = "Tale" -> <<"tale">>
    [] atom = "{author}" -> <<"author">>
    [] atom = "{content}" -> <<"content">>
    [] OTHER -> <<>>

RECURSIVE SlugWords(_)
SlugWords(title) ==
  IF title = <<>> THEN <<>> ELSE SlugWord(Head(title)) \o SlugWords(Tail(title))

RECURSIVE Join(_)
Join(words) ==
  IF Len(words) <= 1 THEN words
  ELSE <<Head(words), "-">> \o Join(Tail(words))

slugify(title) == Join(SlugWords(title))

StoryPath(cat, metaphorTitle) ==
  << "public/collections/stories/", cat, "/" >> \o metaphorTitle \o << ".md" >>

\* ------------------------------------------------------------------ state
VARIABLES
  rev,        \* the revision of storyGenerator.js that runs
  issue,      \* the issue on the platform
  files,      \* the files of the content repository: [path, content]
  run,        \* the number of the current run
  action,     \* context.payload.action of the current run
  pcMain,     \* where the router's async function stands
  failed,     \* the message given to core.setFailed, or NoMsg
  invoked,    \* the handlers the router invoked, in order
  fetched,    \* issue.data as the handler fetched it, or NoIssue
  category,   \* the category the classifier found, or NoMatch
  calls,      \* the API calls of this run, in the order they were started
  caught,     \* the errors storyGenerator's catch logged
  unhandled   \* the rejections no handler caught

vars == << rev, issue, files, run, action, pcMain, failed, invoked, fetched,
           category, calls, caught, unhandled >>

NoIssue ==
  [ state |-> "none", assignees |-> <<>>, labels |-> <<>>, title |-> <<>>,
    user |-> "", created_at |-> "", body |-> <<>> ]

Issues ==
  { [ state |-> s, assignees |-> a, labels |-> l, title |-> t.title, user |-> "alice",
      created_at |-> "2023-04-01", body |-> t.body ] :
    s \in {"open", "closed"}, a \in AssigneeLists, l \in LabelLists, t \in Texts }

NoContent == [ encoding |-> "none", bytes |-> <<>> ]

Call(api, path, content, labels) ==
  [ api |-> api, path |-> path, content |-> content, labels |-> labels,
    status |-> "pending" ]

\* error.message of a rejected API call
ErrorMessage(api) ==
  CASE api = "issues.get" -> "issues.get failed"
    [] api = "repos.createOrUpdateFileContents" -> "createOrUpdateFileContents failed"
    [] api = "issues.addLabels" -> "addLabels failed"
    [] OTHER -> "greetingContributor failed"

\* ------------------------------------------------------------ the classifier
\* Every with the sentinel label let through.
EveryButSentinel(labels, cat) ==
  \A i \in 1..Len(labels) : labels[i] \in {Tag, cat, Sentinel}

\* labels.every(l => ['metaphore', category].includes(l))
Every(labels, cat) == \A i \in 1..Len(labels) : labels[i] \in {Tag, cat}

Table(r) == IF r = "table" THEN metaphors ELSE ladder

\* metaphors.some(([category, label]) => labels.every(...))
isMetaphor(r, labels) == \E i \in 1..Len(Table(r)) : Every(labels, Table(r)[i])

\* metaphors.find(([category, label]) => labels.every(...)): the first match
find(r, labels) ==
  LET hits == { i \in 1..Len(Table(r)) : Every(labels, Table(r)[i]) }
  IN  Table(r)[CHOOSE i \in hits : \A j \in hits : i <= j]

Classify(r, labels) == IF isMetaphor(r, labels) THEN find(r, labels) ELSE NoMatch

\* assignees.some(assignee => ['darkterminal', 'mkubdev'].includes(assignee.login))
isReviewerPresence(assignees) == \E i \in 1..Len(assignees) : assignees[i] \in Reviewers

\* The condition of the handler's outer if.
GateOpen(r, data) ==
  /\ data.state = "closed"
  /\ r = "table" => isReviewerPresence(data.assignees)

\* ------------------------------------------------------------- the publisher
\* Document with the raw issue body encoded in place of the rendered template.
DocumentOfBody(r, issueData, cat) == issueData.body

\* The document createMetaphorFile encodes.
Document(r, issueData, cat) ==
  IF r = "table" THEN Reduce(template, Values(issueData, cat), 1)
  ELSE issueData.body

\* createMetaphorFile up to its await: the request it starts.
createMetaphorFile(r, issueData, cat) ==
  Call("repos.createOrUpdateFileContents",
       StoryPath(cat, slugify(issueData.title)),
       Base64Encode(Document(r, issueData, cat)),
       <<>>)

\* addLabelToClosedIssue submitting the sentinel alone.
addLabelSentinelOnly(labels) ==
  Call("issues.addLabels", <<>>, NoContent, <<Sentinel>>)

\* addLabelToClosedIssue(..., [...labels, 'published']) up to its await.
addLabelToClosedIssue(labels) ==
  Call("issues.addLabels", <<>>, NoContent, labels \o <<Sentinel>>)

\* The calls the handler starts once issues.get has resolved with `data`;
\* none of them is awaited.
StartedCalls(r, data) ==
  IF ~GateOpen(r, data) THEN <<>>
  ELSE (IF isMetaphor(r, data.labels)
          THEN << createMetaphorFile(r, data, find(r, data.labels)) >>
          ELSE <<>>)
       \o (IF r = "table" THEN << addLabelToClosedIssue(data.labels) >> ELSE <<>>)

\* ---------------------------------------------------------------- the router
\* Route with a default branch that logs but does not call core.setFailed.
RouteSilentDefault(a) ==
  CASE a = "closed" -> [ handler |-> <<"storyGenerator">>, failed |-> NoMsg,
                         pc |-> "awaitStory" ]
    [] a = "opened" -> [ handler |-> <<"greetingContributor">>, failed |-> NoMsg,
                         pc |-> "awaitGreeting" ]
    [] OTHER -> [ handler |-> <<>>, failed |-> NoMsg, pc |-> "done" ]

\* switch (context.payload.action)
Route(a) ==
  CASE a = "closed" -> [ handler |-> <<"storyGenerator">>, failed |-> NoMsg,
                         pc |-> "awaitStory" ]
    [] a = "opened" -> [ handler |-> <<"greetingContributor">>, failed |-> NoMsg,
                         pc |-> "awaitGreeting" ]
    [] OTHER -> [ handler |-> <<>>, failed |-> "No action, skipping!", pc |-> "done" ]

\* -------------------------------------------------------------- the platform
\* issues.addLabels on the platform: the labels not yet on the issue are added.
RECURSIVE AddLabels(_, _)
AddLabels(existing, new) ==
  IF new = <<>> THEN existing
  ELSE AddLabels(IF Head(new) \in Range(existing) THEN existing
                 ELSE Append(existing, Head(new)),
                 Tail(new))

Paths == { f.path : f \in files }

Pending(api) == { i \in 1..Len(calls) : calls[i].api = api /\ calls[i].status = "pending" }

Settle(i, status) == [ calls EXCEPT ![i].status = status ]

\* ------------------------------------------------------------------- Init
InitRun(r) ==
  /\ rev = r
  /\ issue \in Issues
  /\ files = {}
  /\ run = 1
  /\ action \in Actions
  /\ pcMain = "start"
  /\ failed = NoMsg
  /\ invoked = <<>>
  /\ fetched = NoIssue
  /\ category = NoMatch
  /\ calls = <<>>
  /\ caught = <<>>
  /\ unhandled = {}

Init == InitRun("table")

InitRevisions == \E r \in Revisions : InitRun(r)

\* ---------------------------------------------------------------- actions
\* index.js: the switch; storyGenerator runs up to its first await.
Dispatch ==
  /\ pcMain = "start"
  /\ pcMain' = Route(action).pc
  /\ invoked' = Route(action).handler
  /\ failed' = Route(action).failed
  /\ calls' = IF Route(action).handler = <<"storyGenerator">>
              THEN << Call("issues.get", <<>>, NoContent, <<>>) >>
              ELSE calls
  /\ UNCHANGED << rev, issue, files, run, action, fetched, category, caught, unhandled >>

\* issues.get resolves: the rest of the handler runs, starts its calls without
\* awaiting them and returns; the router's await ends.
GetResolves ==
  /\ pcMain = "awaitStory"
  /\ Pending("issues.get") = {1}
  /\ fetched' = issue
  /\ category' = IF GateOpen(rev, issue) THEN Classify(rev, issue.labels) ELSE NoMatch
  /\ calls' = Settle(1, "resolved") \o StartedCalls(rev, issue)
  /\ pcMain' = "done"
  /\ UNCHANGED << rev, issue, files, run, action, failed, invoked, caught, unhandled >>

\* issues.get rejects: the handler's catch logs the error and returns false.
GetRejects ==
  /\ pcMain = "awaitStory"
  /\ Pending("issues.get") = {1}
  /\ calls' = Settle(1, "rejected")
  /\ caught' = Append(caught, ErrorMessage("issues.get"))
  /\ pcMain' = "done"
  /\ UNCHANGED << rev, issue, files, run, action, failed, invoked, fetched, category,
                  unhandled >>

\* createOrUpdateFileContents resolves: the file is new on the platform.
CommitResolves ==
  \E i \in Pending("repos.createOrUpdateFileContents") :
    /\ calls[i].path \notin Paths
    /\ files' = files \cup { [ path |-> calls[i].path, content |-> calls[i].content ] }
    /\ calls' = Settle(i, "resolved")
    /\ UNCHANGED << rev, issue, run, action, pcMain, failed, invoked, fetched, category,
                    caught, unhandled >>

\* createOrUpdateFileContents rejects: nothing awaits createMetaphorFile's promise.
CommitRejects ==
  \E i \in Pending("repos.createOrUpdateFileContents") :
    /\ calls' = Settle(i, "rejected")
    /\ unhandled' = unhandled \cup { ErrorMessage(calls[i].api) }
    /\ UNCHANGED << rev, issue, files, run, action, pcMain, failed, invoked, fetched,
                    category, caught >>

\* issues.addLabels resolves.
LabelsResolve ==
  \E i \in Pending("issues.addLabels") :
    /\ issue' = [ issue EXCEPT !.labels = AddLabels(issue.labels, calls[i].labels) ]
    /\ calls' = Settle(i, "resolved")
    /\ UNCHANGED << rev, files, run, action, pcMain, failed, invoked, fetched, category,
                    caught, unhandled >>

\* issues.addLabels rejects: nothing awaits addLabelToClosedIssue's promise.
LabelsReject ==
  \E i \in Pending("issues.addLabels") :
    /\ calls' = Settle(i, "rejected")
    /\ unhandled' = unhandled \cup { ErrorMessage(calls[i].api) }
    /\ UNCHANGED << rev, issue, files, run, action, pcMain, failed, invoked, fetched,
                    category, caught >>

\* greetingContributor returns.
GreetingReturns ==
  /\ pcMain = "awaitGreeting"
  /\ pcMain' = "done"
  /\ UNCHANGED << rev, issue, files, run, action, failed, invoked, fetched, category,
                  calls, caught, unhandled >>

\* greetingContributor throws: index.js catches and calls core.setFailed.
GreetingThrows ==
  /\ pcMain = "awaitGreeting"
  /\ pcMain' = "done"
  /\ failed' = ErrorMessage("greetingContributor")
  /\ UNCHANGED << rev, issue, files, run, action, invoked, fetched, category, calls,
                  caught, unhandled >>

\* The next event on the same issue starts a new run once this one has ended.
NextRun ==
  /\ pcMain = "done"
  /\ \A i \in 1..Len(calls) : calls[i].status # "pending"
  /\ run < MaxRuns
  /\ run' = run + 1
  /\ action' \in Actions
  /\ pcMain' = "start"
  /\ failed' = NoMsg
  /\ invoked' = <<>>
  /\ fetched' = NoIssue
  /\ category' = NoMatch
  /\ calls' = <<>>
  /\ caught' = <<>>
  /\ unhandled' = {}
  /\ UNCHANGED << rev, issue, files >>

Next ==
  \/ Dispatch
  \/ GetResolves
  \/ GetRejects
  \/ CommitResolves
  \/ CommitRejects
  \/ LabelsResolve
  \/ LabelsReject
  \/ GreetingReturns
  \/ GreetingThrows
  \/ NextRun

Spec == Init /\ [][Next]_vars

SpecRevisions == InitRevisions /\ [][Next]_vars

\* ------------------------------------------------------------------ claims
Started(api) == { i \in 1..Len(calls) : calls[i].api = api }

Commits == Started("repos.createOrUpdateFileContents")

LabelUpdates == Started("issues.addLabels")

\* The handler has run past its await of issues.get.
HandlerRan == fetched # NoIssue

Exactly(labels, X) == Range(labels) = {Tag, X}

Count(s, x) == Cardinality({ i \in 1..Len(s) : s[i] = x })

\* C1: in the lookup-table revision the classifier matches category X if and
\* only if the label set is exactly {"metaphore", X}, X a known category; for
\* every other label set there is no match and no metaphor file is created.
ClassifierMatchesExactly ==
  (HandlerRan /\ GateOpen(rev, fetched)) =>
    /\ \A X \in Categories : (category = X) <=> Exactly(fetched.labels, X)
    /\ (Commits # {}) <=> (\E X \in Categories : Exactly(fetched.labels, X))

\* C2: if the file commit of a run fails, the run submits no label update
\* that contains "published".
NoPublishedAfterFailedCommit ==
  \A i \in Commits :
    calls[i].status = "rejected" =>
      \A j \in LabelUpdates : Sentinel \notin Range(calls[j].labels)

\* C3: for a closed issue without an assignee of the allow-list, a run makes
\* no file commit and no label update, whatever the labels are.
UnauthorizedRunIsInert ==
  (HandlerRan /\ fetched.state = "closed" /\ ~isReviewerPresence(fetched.assignees)) =>
    (Commits = {} /\ LabelUpdates = {})

\* C4: if an API call of a 'closed' run fails, the run ends marked failed,
\* with the exception's message as the reason.
ApiFailureFailsRun ==
  LET rejected == { i \in 1..Len(calls) : calls[i].status = "rejected" }
  IN  (action = "closed" /\ pcMain = "done" /\ rejected # {}) =>
        failed \in { ErrorMessage(calls[i].api) : i \in rejected }

\* C5: a closed issue with an authorized assignee that matches no category
\* is a no-op: no file commit and no label update.
NoMatchIsNoOp ==
  ( /\ HandlerRan
    /\ fetched.state = "closed"
    /\ isReviewerPresence(fetched.assignees)
    /\ ~isMetaphor(rev, fetched.labels) ) =>
    (Commits = {} /\ LabelUpdates = {})

\* C6: the router dispatches on the payload action alone: 'closed' invokes
\* only storyGenerator, 'opened' only greetingContributor, and any other
\* action invokes no handler, makes no API call and marks the run failed
\* although nothing was thrown.
RouterDispatchesOnAction ==
  /\ pcMain = "start" => (invoked = <<>> /\ calls = <<>>)
  /\ pcMain # "start" =>
       /\ action = "closed" => invoked = <<"storyGenerator">>
       /\ action = "opened" => invoked = <<"greetingContributor">>
       /\ action \notin {"closed", "opened"} =>
            /\ invoked = <<>>
            /\ calls = <<>>
            /\ pcMain = "done"
            /\ failed = "No action, skipping!"
            /\ caught = <<>>
            /\ unhandled = {}

\* C6 witness: a run on an 'edited' event has ended, marked failed.
EditedRunFailed ==
  action = "edited" /\ pcMain = "done" /\ failed = "No action, skipping!" /\ calls = <<>>

\* C7: within a run the network calls are strictly sequential: at most one
\* call is in flight, the label update does not start while the file commit
\* is in flight, and the run does not end while a call is in flight.
CallsAreSequential ==
  LET pending == { i \in 1..Len(calls) : calls[i].status = "pending" }
  IN  /\ Cardinality(pending) <= 1
      /\ \A j \in LabelUpdates : \A i \in Commits :
           (i < j /\ calls[j].status = "pending") => calls[i].status # "pending"
      /\ pcMain = "done" => pending = {}

\* The document has the front matter's language line with value X.
HasLanguage(doc, X) ==
  \E k \in 1..Len(doc) :
    /\ k + 2 <= Len(doc)
    /\ doc[k] = "\nlanguage: "
    /\ doc[k + 1] = X
    /\ doc[k + 2] = "\n---\n\n"

\* C8: for a closed issue with labels exactly {"metaphore", X} and an
\* authorized assignee, a run makes exactly one file commit, to
\* public/collections/stories/X/<slugify(title)>.md, whose content carries
\* the front matter with language: X, and submits the fetched labels followed
\* by "published".
ExactMatchPublishes ==
  \A X \in Categories :
    ( /\ HandlerRan
      /\ fetched.state = "closed"
      /\ isReviewerPresence(fetched.assignees)
      /\ Exactly(fetched.labels, X) ) =>
      /\ Cardinality(Commits) = 1
      /\ \A i \in Commits :
           /\ calls[i].path = << "public/collections/stories/", X, "/" >>
                                \o slugify(fetched.title) \o << ".md" >>
           /\ calls[i].content.encoding = "base64"
           /\ Head(Base64Decode(calls[i].content)) = "---\nlayout: post\ntitle: "
           /\ HasLanguage(Base64Decode(calls[i].content), X)
      /\ Cardinality(LabelUpdates) = 1
      /\ \A j \in LabelUpdates : calls[j].labels = fetched.labels \o <<Sentinel>>

\* C8 witness: the run on the issue labelled ["metaphore", "rust"] and titled
\* "A Tale" has committed the story and submitted the labels.
RustStoryPublished ==
  /\ fetched.labels = <<"metaphore", "rust">>
  /\ fetched.title = <<"A", "Tale">>
  /\ isReviewerPresence(fetched.assignees)
  /\ \E i \in Commits :
       /\ calls[i].status = "resolved"
       /\ calls[i].path = << "public/collections/stories/", "rust", "/", "a", "-", "tale", ".md" >>
  /\ \E j \in LabelUpdates : calls[j].labels = <<"metaphore", "rust", "published">>

\* C9: the label list a run submits, and the issue's label list, hold
\* "published" at most once, also when the fetched labels already hold it.
SentinelAtMostOnce ==
  /\ \A j \in LabelUpdates : Count(calls[j].labels, Sentinel) <= 1
  /\ Count(issue.labels, Sentinel) <= 1

\* The template with every placeholder substituted once by its value; the
\* substituted text is not scanned again.
RECURSIVE SinglePass(_, _)
SinglePass(text, values) ==
  IF text = <<>> THEN <<>>
  ELSE LET k == { i \in 1..Len(placeholders) : placeholders[i] = Head(text) }
       IN  (IF k = {} THEN <<Head(text)>>
            ELSE Expand(values[CHOOSE i \in k : TRUE], Head(text)))
           \o SinglePass(Tail(text), values)

\* C10: the renderer substitutes each placeholder once against the original
\* field values: placeholder-looking text inside a field value is in the
\* rendered document unchanged.
PlaceholdersInValuesSurvive ==
  \A i \in Commits :
    rev = "table" =>
      Base64Decode(calls[i].content) = SinglePass(template, Values(fetched, category))

\* The atom holds the character '{'.
HasBrace(atom) == atom \in Range(placeholders)

BraceFree(text) == \A k \in 1..Len(text) : ~HasBrace(text[k])

\* C11: when none of the five field values holds the character '{', the
\* rendered document holds none of the five placeholder tokens.
NoPlaceholderRemains ==
  \A i \in Commits :
    ( /\ rev = "table"
      /\ \A v \in 1..Len(placeholders) : BraceFree(Values(fetched, category)[v]) ) =>
      \A k \in 1..Len(Base64Decode(calls[i].content)) :
        Base64Decode(calls[i].content)[k] \notin Range(placeholders)

\* C12: the committed content, decoded, is the front matter block with the
\* five keys, a blank line and the issue body verbatim, for every body.
CommittedBodyVerbatim ==
  \A i \in Commits :
    /\ calls[i].content.encoding = "base64"
    /\ \E l \in 1..Len(Base64Decode(calls[i].content)) :
         LET doc == Base64Decode(calls[i].content)
         IN  /\ l + 2 <= Len(doc)
             /\ doc[1] = "---\nlayout: post\ntitle: "
             /\ doc[l] = "\nlanguage: "
             /\ doc[l + 2] = "\n---\n\n"
             /\ SubSeq(doc, l + 3, Len(doc)) = fetched.body

\* C13: a label update a run submits holds every fetched label, in the
\* fetched order and unchanged, followed by "published".
SubmittedLabelsPreserveFetched ==
  \A j \in LabelUpdates :
    /\ Len(calls[j].labels) = Len(fetched.labels) + 1
    /\ \A k \in 1..Len(fetched.labels) : calls[j].labels[k] = fetched.labels[k]
    /\ calls[j].labels[Len(calls[j].labels)] = Sentinel

\* C13 witness: the labels ["bug", "rust"] were submitted with "published"
\* after them.
BugRustSubmitted ==
  /\ fetched.labels = <<"bug", "rust">>
  /\ \E j \in LabelUpdates : calls[j].labels = <<"bug", "rust", "published">>

\* C14: a run that fetched a label list holding "published" starts no file
\* commit.
PublishedIssueNotCommitted ==
  (HandlerRan /\ Sentinel \in Range(fetched.labels)) => Commits = {}

\* C14 witness: a later run on an issue whose story an earlier run committed
\* and labelled has ended without a commit.
SecondRunSkipsPublished ==
  /\ run > 1
  /\ pcMain = "done"
  /\ files # {}
  /\ fetched.state = "closed"
  /\ isReviewerPresence(fetched.assignees)
  /\ Range(fetched.labels) = {Tag, "rust", Sentinel}
  /\ Commits = {}

\* C15: a run starts at most one file commit, only after the fetch returned
\* state 'closed', and the category of the commit path is one of the 13
\* categories, is one of the fetched labels and is the language value of the
\* front matter.
CommitCategoryIsFetchedLabel ==
  /\ Cardinality(Commits) <= 1
  /\ \A i \in Commits :
       /\ fetched.state = "closed"
       /\ \E X \in Categories :
            /\ calls[i].path = << "public/collections/stories/", X, "/" >>
                                 \o slugify(fetched.title) \o << ".md" >>
            /\ X \in Range(fetched.labels)
            /\ HasLanguage(Base64Decode(calls[i].content), X)

====
